---- MODULE Spec2Model ----
(***************************************************************************)
(* A model of the Codecat preprocessor (src/ccpp.h): the lexer, the define *)
(* set, the condition evaluator, the scope stack and ccpp::processor::     *)
(* process, one action per iteration of its main loop.                     *)
(*                                                                         *)
(* Characters are one-character strings; a buffer is a sequence of them.   *)
(* Pointers are 0-based offsets into the memory the buffer lives in, which *)
(* is Pad cells longer than the buffer: lex() reads *p at p = pEnd and a   *)
(* String token can end at pEnd + 1, so the cells behind the buffer are    *)
(* part of what the code reads and writes.                                 *)
(***************************************************************************)
EXTENDS Integers, Sequences, FiniteSets, TLC

VARIABLES
    buffer,             \* the memory holding the buffer of the current / last process() call
    orig,               \* history: that memory as it was when process() was called
    m_p,                \* cursor, NULLP when no pass is in progress
    m_pEnd,             \* end of the buffer (= its length), NULLP when no pass is in progress
    m_line,
    m_column,
    m_defines,          \* std::vector<const char*>: a sequence of names
    m_stack,            \* std::stack<uint32_t>: a sequence of flag sets, top last
    m_includeCallback,  \* TRUE when a callback is set
    m_commandCallback,  \* TRUE when a callback is set
    errs,               \* history: the errors CCPP_ERROR reported in the current / last call
    cbLog,              \* history: the callback invocations of the current / last process() call
    fault,              \* "none", or how the running call stopped making progress
    ncalls              \* number of process() calls started

vars == <<buffer, orig, m_p, m_pEnd, m_line, m_column, m_defines, m_stack,
          m_includeCallback, m_commandCallback, errs, cbLog, fault, ncalls>>

-----------------------------------------------------------------------------
(* Bounds *)

MaxCalls == 2       \* process() calls in one behaviour
MaxLines == 2       \* lines of a buffer of the general specification
MaxRaw   == 2       \* lines of a buffer of the specification of malformed input
MaxNest  == 5       \* lines of a buffer of the nesting specification
MaxTerms == 3       \* terms of a condition of the condition specification
MaxDefLines == 2    \* lines of a buffer of the define-set specification

-----------------------------------------------------------------------------
(* Characters *)

NULLP == 0 - 1
Pad == 2

NUL == "NUL"
character == "#"

Lower == {"a","b","c","d","e","f","g","h","i","j","k","l","m",
          "n","o","p","q","r","s","t","u","v","w","x","y","z"}
Upper == {"A","B","C","D","E","F","G","H","I","J","K","L","M",
          "N","O","P","Q","R","S","T","U","V","W","X","Y","Z"}
Digit == {"0","1","2","3","4","5","6","7","8","9"}

isWhitespace(c) == c \in {" ", "\t"}
isNewline(c) == c \in {"\r", "\n"}
isAlphaNum(c) == c \in Lower \cup Upper \cup Digit \cup {"_"}
isOperator(c) == c \in {"!", "&", "|", "(", ")"}

\* *p for a pointer p into memory mem
At(mem, p) == mem[p + 1]

\* the characters [p, p + len) as a string
Chars(mem, p, len) == [i \in 1..len |-> mem[p + i]]

Range(s) == {s[i] : i \in 1..Len(s)}

-----------------------------------------------------------------------------
(* The lexer *)

\* the loop of the String branch of lex() from pointer p: the length of the
\* token that started at pStart
RECURSIVE LexStringLoop(_, _, _, _)
LexStringLoop(mem, pStart, p, pEnd) ==
    IF p < pEnd
    THEN IF At(mem, p + 1) = "\\" THEN LexStringLoop(mem, pStart, p + 2, pEnd)
         ELSE IF At(mem, p + 1) = "\"" THEN p + 2 - pStart
         ELSE LexStringLoop(mem, pStart, p + 1, pEnd)
    ELSE p - pStart

\* the type a character gives a token that has none yet
FirstType(c) ==
    IF isWhitespace(c) THEN "Whitespace"
    ELSE IF isNewline(c) THEN "Newline"
    ELSE IF isAlphaNum(c) THEN "Word"
    ELSE IF isOperator(c) THEN "Operator"
    ELSE "None"

\* the loop of the other branch of lex() from pointer p: the length and the
\* type of the token that started at pStart
RECURSIVE LexLoop(_, _, _, _, _, _, _)
LexLoop(mem, pStart, p, pEnd, type, haveNewlineR, haveNewlineN) ==
    IF p < pEnd
    THEN IF \/ At(mem, p) = "\r" /\ haveNewlineR
            \/ At(mem, p) = "\n" /\ haveNewlineN
            \/ type = "Whitespace" /\ ~isWhitespace(At(mem, p))
            \/ type = "Newline" /\ ~isNewline(At(mem, p))
            \/ type = "Word" /\ ~isAlphaNum(At(mem, p))
            \/ type = "Operator" /\ ~isOperator(At(mem, p))
         THEN [len |-> p - pStart, type |-> type]
         ELSE LexLoop(mem, pStart, p + 1, pEnd,
                      IF type = "None" THEN FirstType(At(mem, p)) ELSE type,
                      haveNewlineR \/ At(mem, p) = "\r",
                      haveNewlineN \/ At(mem, p) = "\n")
    ELSE [len |-> p - pStart, type |-> type]

\* lex(p, pEnd, type): the length and the type of the token at p
lex(mem, p, pEnd) ==
    IF At(mem, p) = "\""
    THEN [len |-> LexStringLoop(mem, p, p, pEnd), type |-> "String"]
    ELSE LexLoop(mem, p, p, pEnd, "None", FALSE, FALSE)

\* what lex_expect makes of the token t: the length, 0 on a mismatch, and
\* whether the mismatch was reported
Expect(t, expected_type) ==
    IF t.type # expected_type
    THEN [len |-> 0, err |-> TRUE]
    ELSE [len |-> t.len, err |-> FALSE]

lex_expect(mem, p, pEnd, expected_type) == Expect(lex(mem, p, pEnd), expected_type)

\* lex_next: l is the returned length, start / len / type are the out-parameters.
\* t is the token at p, t2 the token behind it.
LexNextOf(p, t, t2) ==
    IF t.type = "Whitespace"
    THEN [l |-> t.len + t2.len, start |-> p + t.len, len |-> t2.len, type |-> t2.type]
    ELSE [l |-> t.len, start |-> p, len |-> t.len, type |-> t.type]

LexSecond(mem, p, pEnd, t) == LexNextOf(p, t, lex(mem, p + t.len, pEnd))

lex_next(mem, p, pEnd) == LexSecond(mem, p, pEnd, lex(mem, p, pEnd))

-----------------------------------------------------------------------------
(* Scope and match flags, errors *)

Scope_Passing == "Passing"
Scope_Erasing == "Erasing"
Scope_Else    == "Else"
Scope_ElseIf  == "ElseIf"
Scope_Deep    == "Deep"

Match_OpAnd == "and"
Match_OpOr  == "or"

\* one CCPP_ERROR report: its kind and the number it carries (0 when none)
Err(kind) == <<kind, 0>>

-----------------------------------------------------------------------------
(* The define set *)

has_define(defs, name) == \E i \in 1..Len(defs) : defs[i] = name

\* an add_define without its has_define guard
add_define_NoGuard(defs, name) == [defs |-> Append(defs, name), errs |-> {}]

\* add_define: the new vector and the errors reported
add_define(defs, name) ==
    IF has_define(defs, name)
    THEN [defs |-> defs, errs |-> {Err("DuplicateDefine")}]
    ELSE [defs |-> Append(defs, name), errs |-> {}]

\* a remove_define that would erase from the first match to the end
remove_define_EraseToEnd(defs, name) ==
    IF has_define(defs, name)
    THEN LET i == CHOOSE k \in 1..Len(defs) :
                      defs[k] = name /\ \A j \in 1..(k - 1) : defs[j] # name
         IN  [defs |-> SubSeq(defs, 1, i - 1), errs |-> {}]
    ELSE [defs |-> defs, errs |-> {Err("UnknownDefine")}]

\* remove_define: erases the first match
remove_define(defs, name) ==
    IF has_define(defs, name)
    THEN LET i == CHOOSE k \in 1..Len(defs) :
                      defs[k] = name /\ \A j \in 1..(k - 1) : defs[j] # name
         IN  [defs |-> SubSeq(defs, 1, i - 1) \o SubSeq(defs, i + 1, Len(defs)),
              errs |-> {}]
    ELSE [defs |-> defs, errs |-> {Err("UnknownDefine")}]

-----------------------------------------------------------------------------
(* The buffer editor *)

\* overwrite(p, len): blanks [p, p + len) except '\r' and '\n'
overwrite(mem, p, len) ==
    [i \in 1..Len(mem) |->
        IF i > p /\ i <= p + len /\ mem[i] # "\r" /\ mem[i] # "\n" THEN " " ELSE mem[i]]

-----------------------------------------------------------------------------
(* The condition evaluator *)

\* strncmp(symStart, lit, symLength) == 0 for a token of operator characters
\* and a two-character literal, whose third character is the terminating NUL
strncmpEq(tok, lit) ==
    /\ Len(tok) <= 2
    /\ \A i \in 1..Len(tok) : tok[i] = lit[i]

\* "Perform AND conditions first" / "Perform OR conditions last": one pass
\* from index i (1-based) down to the second entry for the combinator op
RECURSIVE FoldPass(_, _, _)
FoldPass(conditions, i, op) ==
    IF i < 2 THEN conditions
    ELSE IF conditions[i].op = op
    THEN FoldPass([k \in 1..(Len(conditions) - 1) |->
                      IF k = i - 1
                      THEN [conditions[k] EXCEPT !.pass =
                               IF op = Match_OpAnd
                               THEN conditions[i].pass /\ conditions[i - 1].pass
                               ELSE conditions[i].pass \/ conditions[i - 1].pass]
                      ELSE IF k < i THEN conditions[k] ELSE conditions[k + 1]],
                  i - 1, op)
    ELSE FoldPass(conditions, i - 1, op)

FoldOr(conditions) == FoldPass(conditions, Len(conditions), Match_OpOr)

\* the two passes in the other order
FoldAnd(conditions) == FoldPass(conditions, Len(conditions), Match_OpAnd)
Fold_OrFirst(conditions) == FoldAnd(FoldPass(conditions, Len(conditions), Match_OpOr))

Fold(conditions) == FoldOr(FoldPass(conditions, Len(conditions), Match_OpAnd))

\* The end of test_condition at cursor p: folded is what the two passes leave
\* of the entries, ub the value read from conditions[0] when the vector is
\* empty (an out-of-range read).
CondResult(p, folded, es, ub) ==
    [hang |-> FALSE, p |-> p,
     errs |-> IF Len(folded) = 1 THEN es ELSE es \cup {Err("Assertion")},
     result |-> IF Len(folded) = 0 THEN ub ELSE folded[1].pass]

\* The while (true) loop of test_condition from cursor p, t being the token
\* lex_next finds there. hang: the loop can never leave (the cursor is at or
\* behind pEnd, where lex() returns length 0 and a type that is not Newline,
\* so every further iteration appends one more entry and reports one more
\* error).
RECURSIVE CondLoop(_, _, _, _, _, _, _, _)
RECURSIVE CondStep(_, _, _, _, _, _, _, _, _)
RECURSIVE CondTerm(_, _, _, _, _, _, _, _, _, _)

\* the term whose word should be the token t at cursor p
CondTerm(mem, p, pEnd, defs, conditions, opFlag, es, ub, mustEqual, t) ==
    CondLoop(mem, p + t.l, pEnd, defs,
             Append(conditions,
                    [pass |-> /\ t.type = "Word"
                              /\ has_define(defs, Chars(mem, t.start, t.len)) = mustEqual,
                     op |-> opFlag]),
             opFlag,
             IF t.type = "Word" THEN es ELSE es \cup {Err("ConditionSyntax")},
             ub)

CondStep(mem, p, pEnd, defs, conditions, opFlag, es, ub, t) ==
    IF t.type = "Newline" THEN CondResult(p + t.l, Fold(conditions), es, ub)
    ELSE IF t.l = 0
    THEN [hang |-> TRUE, p |-> p, errs |-> es \cup {Err("ConditionSyntax")}, result |-> FALSE]
    ELSE IF t.type # "Operator"
    THEN CondTerm(mem, p, pEnd, defs, conditions, opFlag, es, ub, TRUE, t)
    ELSE IF At(mem, t.start) = "!"
    THEN CondTerm(mem, p + t.l, pEnd, defs, conditions, opFlag, es, ub, FALSE,
                  lex_next(mem, p + t.l, pEnd))
    ELSE IF strncmpEq(Chars(mem, t.start, t.len), <<"&", "&">>)
    THEN CondLoop(mem, p + t.l, pEnd, defs, conditions, Match_OpAnd, es, ub)
    ELSE IF strncmpEq(Chars(mem, t.start, t.len), <<"|", "|">>)
    THEN CondLoop(mem, p + t.l, pEnd, defs, conditions, Match_OpOr, es, ub)
    ELSE CondTerm(mem, p + t.l, pEnd, defs, conditions, opFlag,
                  es \cup {Err("ConditionSyntax")}, ub, TRUE,
                  lex_next(mem, p + t.l, pEnd))

CondLoop(mem, p, pEnd, defs, conditions, opFlag, es, ub) ==
    CondStep(mem, p, pEnd, defs, conditions, opFlag, es, ub, lex_next(mem, p, pEnd))

\* test_condition at cursor p
test_condition(mem, p, pEnd, defs, ub) == CondLoop(mem, p, pEnd, defs, <<>>, "none", {}, ub)

-----------------------------------------------------------------------------
(* expect_eol and consume_line *)

\* the loop of consume_line from cursor p, t being the token lex finds there.
\* hang: lex() returned length 0 and a type that is not Newline, so the loop
\* repeats in the same state for ever.
RECURSIVE ConsumeLoop(_, _, _)
RECURSIVE ConsumeStep(_, _, _, _)
ConsumeStep(mem, p, pEnd, t) ==
    IF t.type = "Newline" THEN [hang |-> FALSE, p |-> p + t.len]
    ELSE IF t.len = 0 THEN [hang |-> TRUE, p |-> p]
    ELSE ConsumeLoop(mem, p + t.len, pEnd)

ConsumeLoop(mem, p, pEnd) == ConsumeStep(mem, p, pEnd, lex(mem, p, pEnd))

\* The state a directive leaves: the fields process() changes; ow, whether
\* control reaches the overwrite() that ends the directive branch; passed, the
\* result of the condition when one was evaluated.
Cur(p) ==
    [p |-> p, line |-> m_line, col |-> 1, defs |-> m_defines, stack |-> m_stack,
     errs |-> errs, log |-> cbLog, fault |-> "none", ow |-> TRUE, passed |-> FALSE]

Report(r, kind) == [r EXCEPT !.errs = @ \cup {Err(kind)}]

\* a "continue" out of the directive branch: overwrite() is not reached
Continue(r) == [r EXCEPT !.ow = FALSE]

\* a failed lex_expect: its report, then "continue"
Mismatch(r) == Continue(Report(r, "LexMismatch"))

expect_eol(r) ==
    IF r.p = m_pEnd THEN r
    ELSE IF lex_expect(buffer, r.p, m_pEnd, "Newline").len = 0
    THEN Report(r, "LexMismatch")
    ELSE [r EXCEPT !.p = @ + 1, !.line = @ + 1, !.col = 0]

\* the end of consume_line, l being what its loop leaves
Consumed(r, l) ==
    IF l.hang
    THEN [r EXCEPT !.p = l.p, !.fault = "hang", !.ow = FALSE]
    ELSE [r EXCEPT !.p = l.p, !.line = @ + 1, !.col = 0]

consume_line(r) == Consumed(r, ConsumeLoop(buffer, r.p, m_pEnd))

-----------------------------------------------------------------------------
(* The directive branches of process(). p is the cursor behind the command  *)
(* word; isErasing / isDeep are the flags read at the top of the iteration. *)

Top == m_stack[Len(m_stack)]

SetTop(r, scope) == [r EXCEPT !.stack = [@ EXCEPT ![Len(@)] = scope]]

\* the lengths lex_expect returns at cursor p
WhitespaceAt(p) == lex_expect(buffer, p, m_pEnd, "Whitespace").len
WordAt(p) == lex_expect(buffer, p, m_pEnd, "Word").len

\* the add_define / remove_define call of a directive and its expect_eol, p
\* being the cursor behind the name; d is what the call leaves
Defined(p, d) == expect_eol([Cur(p) EXCEPT !.defs = d.defs, !.errs = @ \cup d.errs])

\* #define <word> (undef = FALSE) and #undef <word> (undef = TRUE) when not
\* erasing, p being the cursor behind the whitespace and len the length of the
\* word expected there
DefineWord(p, len, undef) ==
    IF len = 0 THEN Mismatch(Cur(p))
    ELSE Defined(p + len, IF undef THEN remove_define(m_defines, Chars(buffer, p, len))
                                   ELSE add_define(m_defines, Chars(buffer, p, len)))

\* #define <word> (undef = FALSE) and #undef <word> (undef = TRUE)
DoDefine(p, isErasing, undef) ==
    IF isErasing THEN consume_line(Cur(p))
    ELSE IF WhitespaceAt(p) = 0 THEN Mismatch(Cur(p))
    ELSE DefineWord(p + WhitespaceAt(p), WordAt(p + WhitespaceAt(p)), undef)

\* the state test_condition leaves, tc being what it returns
Tested(tc) ==
    IF tc.hang
    THEN [Cur(tc.p) EXCEPT !.errs = @ \cup tc.errs, !.fault = "hang", !.ow = FALSE]
    ELSE [Cur(tc.p) EXCEPT !.errs = @ \cup tc.errs, !.line = @ + 1, !.col = 0,
                           !.passed = tc.result]

\* the condition of a non-erased #if / #elif at cursor p
Condition(p, ub) == Tested(test_condition(buffer, p, m_pEnd, m_defines, ub))

\* "Push to the stack", c being the state the condition left
PushScope(c) ==
    IF c.fault # "none" THEN c
    ELSE [c EXCEPT !.stack = Append(@, IF c.passed THEN {Scope_Passing} ELSE {Scope_Erasing})]

\* #if <condition>
DoIf(p, isErasing, ub) ==
    IF isErasing
    THEN consume_line([Cur(p) EXCEPT !.stack = Append(@, {Scope_Erasing, Scope_Deep})])
    ELSE IF WhitespaceAt(p) = 0 THEN Mismatch(Cur(p))
    ELSE PushScope(Condition(p + WhitespaceAt(p), ub))

\* #else that selects its branch whatever the chain has taken before
DoElse_AlwaysPassing(p, isErasing, isDeep) ==
    IF isErasing /\ isDeep THEN consume_line(Cur(p))
    ELSE IF Len(m_stack) = 0 THEN consume_line(Report(Cur(p), "UnbalancedElse"))
    ELSE expect_eol(SetTop(Cur(p), {Scope_Passing, Scope_Else}))

\* #else that would not look at the Deep flag
DoElse_IgnoresDeep(p, isErasing, isDeep) ==
    IF Len(m_stack) = 0 THEN consume_line(Report(Cur(p), "UnbalancedElse"))
    ELSE expect_eol(
           IF Scope_Else \in Top THEN Report(Cur(p), "UnbalancedElse")
           ELSE IF Scope_Passing \in Top THEN SetTop(Cur(p), {Scope_Erasing, Scope_Else})
           ELSE IF Scope_Erasing \in Top THEN SetTop(Cur(p), {Scope_Passing, Scope_Else})
           ELSE Cur(p))

\* #else
DoElse(p, isErasing, isDeep) ==
    IF isErasing /\ isDeep THEN consume_line(Cur(p))
    ELSE IF Len(m_stack) = 0 THEN consume_line(Report(Cur(p), "UnbalancedElse"))
    ELSE expect_eol(
           IF Scope_Else \in Top THEN Report(Cur(p), "UnbalancedElse")
           ELSE IF Scope_Passing \in Top THEN SetTop(Cur(p), {Scope_Erasing, Scope_Else})
           ELSE IF Scope_Erasing \in Top THEN SetTop(Cur(p), {Scope_Passing, Scope_Else})
           ELSE Cur(p))

\* "Update the scope", c being the state the condition left
UpdateScope(c) ==
    IF c.fault # "none" THEN c
    ELSE SetTop(c, IF c.passed THEN {Scope_Passing, Scope_ElseIf}
                               ELSE {Scope_Erasing, Scope_ElseIf})

\* #elif that evaluates its condition also when the chain has passed already
DoElif_NoShortCircuit(p, isErasing, isDeep, ub) ==
    IF isErasing /\ isDeep THEN consume_line(Cur(p))
    ELSE IF Len(m_stack) = 0 THEN consume_line(Report(Cur(p), "UnbalancedElif"))
    ELSE IF Scope_Else \in Top THEN consume_line(Report(Cur(p), "UnbalancedElif"))
    ELSE IF WhitespaceAt(p) = 0 THEN Mismatch(Cur(p))
    ELSE UpdateScope(Condition(p + WhitespaceAt(p), ub))

\* #elif <condition>
DoElif(p, isErasing, isDeep, ub) ==
    IF isErasing /\ isDeep THEN consume_line(Cur(p))
    ELSE IF Len(m_stack) = 0 THEN consume_line(Report(Cur(p), "UnbalancedElif"))
    ELSE IF Scope_Else \in Top THEN consume_line(Report(Cur(p), "UnbalancedElif"))
    ELSE IF Scope_Passing \in Top
    THEN consume_line(SetTop(Cur(p), {Scope_Erasing, Scope_ElseIf, Scope_Deep}))
    ELSE IF WhitespaceAt(p) = 0 THEN Mismatch(Cur(p))
    ELSE UpdateScope(Condition(p + WhitespaceAt(p), ub))

\* "Pop from stack"
PopScope(r) == [r EXCEPT !.stack = SubSeq(@, 1, Len(@) - 1)]

\* #endif
DoEndif(p) ==
    IF Len(m_stack) = 0 THEN consume_line(Report(Cur(p), "UnbalancedEndif"))
    ELSE PopScope(expect_eol(Cur(p)))

\* one entry of the history of calls: hasValue is FALSE for a nullptr value
Logged(r, callback, command, hasValue, value) ==
    [r EXCEPT !.log = Append(@, [callback |-> callback, command |-> command,
                                 hasValue |-> hasValue, value |-> value])]

\* the buffer a callback hands to a process() call of its own
InnerMem == <<character, "d", "e", "f", "i", "n", "e", " ", "B", "\n", NUL, NUL>>

\* a process() that would set the position before it looks at m_p
Reenter_ResetsPosition(r, mem) ==
    Logged([Report(r, "Reentrancy") EXCEPT !.line = 1, !.col = 0],
           "process", <<>>, TRUE, mem)

\* process(buffer, len) called while m_p is not null, r being the state at the
\* call: the report and the return. The history entry holds the memory of
\* that buffer as the call leaves it. (Inside a callback m_p points into the
\* buffer of the running pass: the other branch, a pass within the pass, is
\* not taken there and not followed.)
Reenter(r, mem) ==
    IF r.p # NULLP THEN Logged(Report(r, "Reentrancy"), "process", <<>>, TRUE, mem)
    ELSE [r EXCEPT !.fault = "nested"]

\* one callback invocation, cb being what the callback does: cb.re, it calls
\* process() on this instance; cb.ret, the value it returns
Call(r, callback, command, hasValue, value, cb) ==
    IF cb.re THEN Reenter(Logged(r, callback, command, hasValue, value), InnerMem)
    ELSE Logged(r, callback, command, hasValue, value)

\* "Run callback" of #include and its expect_eol, called being the state at the call
Included(called, cb) == expect_eol(IF cb.ret THEN called ELSE Report(called, "IncludeFailed"))

\* #include <path> when not erasing and with a callback, p being the cursor
\* behind the whitespace and s what lex_expect returns for the String expected
\* there. cb is what the callback does. A String token of length 1 makes
\* lenPath - 2 wrap around as a size_t: the memcpy of that many bytes cannot
\* complete (fault "crash").
IncludePath(p, s, cb) ==
    IF s.len = 0 THEN (IF s.err THEN Mismatch(Cur(p)) ELSE Continue(Cur(p)))
    ELSE IF s.len < 2 THEN [Cur(p) EXCEPT !.fault = "crash", !.ow = FALSE]
    ELSE Included(Call(Cur(p + s.len), "include", <<>>, TRUE,
                       Chars(buffer, p + 1, s.len - 2), cb),
                  cb)

\* #include <path>
DoInclude(p, isErasing, cb) ==
    IF isErasing THEN consume_line(Cur(p))
    ELSE IF ~m_includeCallback THEN consume_line(Report(Cur(p), "IncludeUnconfigured"))
    ELSE IF WhitespaceAt(p) = 0 THEN Mismatch(Cur(p))
    ELSE IncludePath(p + WhitespaceAt(p),
                     lex_expect(buffer, p + WhitespaceAt(p), m_pEnd, "String"), cb)

\* the command callback is called with the token t at commandValueStart
CommandValue(consumed, wordCommand, commandValueStart, t, cb) ==
    IF t.type = "Newline" THEN Call(consumed, "command", wordCommand, FALSE, <<>>, cb)
    ELSE Call(consumed, "command", wordCommand, TRUE,
              Chars(buffer, commandValueStart, t.len), cb)

\* "See if there is a custom command callback", t being the token at p
CommandCall(consumed, wordCommand, p, t, cb) ==
    IF t.type = "Whitespace"
    THEN CommandValue(consumed, wordCommand, p + t.len, lex(buffer, p + t.len, m_pEnd), cb)
    ELSE CommandValue(consumed, wordCommand, p, t, cb)

\* an unknown command that would be handled in erased text as well
CommandFound_AlsoErasing(consumed, called, isErasing, cb) ==
    IF consumed.fault # "none" THEN consumed
    ELSE IF ~m_commandCallback THEN Report(consumed, "UnrecognizedDirective")
    ELSE IF cb.ret THEN called
    ELSE Report(called, "UnrecognizedDirective")

\* "Handle if not erasing", consumed being the state consume_line left
CommandFound(consumed, called, isErasing, cb) ==
    IF consumed.fault # "none" \/ isErasing THEN consumed
    ELSE IF ~m_commandCallback THEN Report(consumed, "UnrecognizedDirective")
    ELSE IF cb.ret THEN called
    ELSE Report(called, "UnrecognizedDirective")

\* any other command word. cb is what the callback does.
DoCommand(p, wordCommand, isErasing, cb) ==
    CommandFound(consume_line(Cur(p)),
                 CommandCall(consume_line(Cur(p)), wordCommand, p, lex(buffer, p, m_pEnd), cb),
                 isErasing, cb)

Str_define  == <<"d", "e", "f", "i", "n", "e">>
Str_undef   == <<"u", "n", "d", "e", "f">>
Str_if      == <<"i", "f">>
Str_else    == <<"e", "l", "s", "e">>
Str_elif    == <<"e", "l", "i", "f">>
Str_endif   == <<"e", "n", "d", "i", "f">>
Str_include == <<"i", "n", "c", "l", "u", "d", "e">>

\* the dispatch on the command word, p being the cursor behind it
Command(p, wordCommand, isErasing, isDeep, ub, cb) ==
    IF wordCommand = Str_define THEN DoDefine(p, isErasing, FALSE)
    ELSE IF wordCommand = Str_undef THEN DoDefine(p, isErasing, TRUE)
    ELSE IF wordCommand = Str_if THEN DoIf(p, isErasing, ub)
    ELSE IF wordCommand = Str_else THEN DoElse(p, isErasing, isDeep)
    ELSE IF wordCommand = Str_elif THEN DoElif(p, isErasing, isDeep, ub)
    ELSE IF wordCommand = Str_endif THEN DoEndif(p)
    ELSE IF wordCommand = Str_include THEN DoInclude(p, isErasing, cb)
    ELSE DoCommand(p, wordCommand, isErasing, cb)

\* "Expect a command word" at p0, the cursor behind the marker, lenCommand
\* being the length lex_expect returns
CommandWord(p0, lenCommand, ub, cb) ==
    IF lenCommand = 0 THEN Mismatch(Cur(p0))
    ELSE Command(p0 + lenCommand, Chars(buffer, p0, lenCommand),
                 Len(m_stack) > 0 /\ Scope_Erasing \in Top,
                 Len(m_stack) > 0 /\ Scope_Deep \in Top, ub, cb)

\* the directive branch of one iteration, from the marker at m_p to the
\* overwrite(): the state it leaves
Dispatch(ub, cb) == CommandWord(m_p + 1, WordAt(m_p + 1), ub, cb)

-----------------------------------------------------------------------------
(* Actions *)

Idle == m_p = NULLP /\ fault = "none"
Running == m_p # NULLP /\ fault = "none"

\* add_define(name) called by the host between passes
AddDefine(name) ==
    /\ Idle
    /\ LET a == add_define(m_defines, name)
       IN  m_defines' = a.defs /\ errs' = a.errs
    /\ UNCHANGED <<buffer, orig, m_p, m_pEnd, m_line, m_column, m_stack,
                   m_includeCallback, m_commandCallback, cbLog, fault, ncalls>>

\* remove_define(name) called by the host between passes
RemoveDefine(name) ==
    /\ Idle
    /\ LET a == remove_define(m_defines, name)
       IN  m_defines' = a.defs /\ errs' = a.errs
    /\ UNCHANGED <<buffer, orig, m_p, m_pEnd, m_line, m_column, m_stack,
                   m_includeCallback, m_commandCallback, cbLog, fault, ncalls>>

SetIncludeCallback ==
    /\ Idle
    /\ ~m_includeCallback
    /\ m_includeCallback' = TRUE
    /\ UNCHANGED <<buffer, orig, m_p, m_pEnd, m_line, m_column, m_defines, m_stack,
                   m_commandCallback, errs, cbLog, fault, ncalls>>

SetCommandCallback ==
    /\ Idle
    /\ ~m_commandCallback
    /\ m_commandCallback' = TRUE
    /\ UNCHANGED <<buffer, orig, m_p, m_pEnd, m_line, m_column, m_defines, m_stack,
                   m_includeCallback, errs, cbLog, fault, ncalls>>

\* a process() that would start every pass from an empty define set
Process_FreshDefines(mem) ==
    /\ Idle
    /\ ncalls < MaxCalls
    /\ ncalls' = ncalls + 1
    /\ buffer' = mem
    /\ orig' = mem
    /\ m_line' = 1
    /\ m_column' = 0
    /\ m_p' = 0
    /\ m_pEnd' = Len(mem) - Pad
    /\ errs' = {}
    /\ cbLog' = <<>>
    /\ m_defines' = <<>>
    /\ UNCHANGED <<m_stack, m_includeCallback, m_commandCallback, fault>>

\* process(buffer, len) is entered: mem is the memory the buffer lives in
\* (Len(mem) = len + Pad)
Process(mem) ==
    /\ Idle
    /\ ncalls < MaxCalls
    /\ ncalls' = ncalls + 1
    /\ buffer' = mem
    /\ orig' = mem
    /\ m_line' = 1
    /\ m_column' = 0
    /\ m_p' = 0
    /\ m_pEnd' = Len(mem) - Pad
    /\ errs' = {}
    /\ cbLog' = <<>>
    /\ UNCHANGED <<m_defines, m_stack, m_includeCallback, m_commandCallback, fault>>

\* one iteration of the main loop that does not start a directive
ScanChar ==
    /\ Running
    /\ m_p < m_pEnd
    /\ IF At(buffer, m_p) = "\n"
       THEN /\ m_column' = 0
            /\ m_line' = m_line + 1
            /\ m_p' = m_p + 1
            /\ UNCHANGED buffer
       ELSE /\ m_column > 0 \/ At(buffer, m_p) # character
            /\ m_column' = m_column + 1
            /\ buffer' = IF Len(m_stack) > 0 /\ Scope_Erasing \in Top
                         THEN [buffer EXCEPT ![m_p + 1] = " "]
                         ELSE buffer
            /\ m_p' = m_p + 1
            /\ UNCHANGED m_line
    /\ UNCHANGED <<orig, m_pEnd, m_defines, m_stack, m_includeCallback, m_commandCallback,
                   errs, cbLog, fault, ncalls>>

\* what a callback can do: return TRUE or FALSE, after calling process() on
\* this instance or not
Callbacks ==
    IF m_includeCallback \/ m_commandCallback
    THEN [ret : BOOLEAN, re : BOOLEAN]
    ELSE {[ret |-> TRUE, re |-> FALSE]}

\* What the iteration can leave: ub is the value of an out-of-range read, cb
\* what a callback does.
Outcomes == {Dispatch(ub, cb) : ub \in BOOLEAN, cb \in Callbacks}

\* one iteration of the main loop that starts at the marker in column 0
Directive ==
    /\ Running
    /\ m_p < m_pEnd
    /\ At(buffer, m_p) # "\n"
    /\ m_column = 0
    /\ At(buffer, m_p) = character
    /\ \E r \in Outcomes :
         /\ buffer' = IF r.ow THEN overwrite(buffer, m_p, r.p - m_p) ELSE buffer
         /\ m_p' = r.p
         /\ m_line' = r.line
         /\ m_column' = r.col
         /\ m_defines' = r.defs
         /\ m_stack' = r.stack
         /\ errs' = r.errs
         /\ cbLog' = r.log
         /\ fault' = r.fault
    /\ UNCHANGED <<orig, m_pEnd, m_includeCallback, m_commandCallback, ncalls>>

\* the main loop is left and process() returns
Return ==
    /\ Running
    /\ ~(m_p < m_pEnd)
    /\ errs' = IF Len(m_stack) > 0
               THEN errs \cup {<<"UnclosedScope", Len(m_stack)>>}
               ELSE errs
    /\ m_p' = NULLP
    /\ m_pEnd' = NULLP
    /\ UNCHANGED <<buffer, orig, m_line, m_column, m_defines, m_stack,
                   m_includeCallback, m_commandCallback, cbLog, fault, ncalls>>

-----------------------------------------------------------------------------
(* Inputs *)

NameA == <<"A">>
NameB == <<"B">>
Names == {NameA, NameB}

SP == <<" ">>
NL == <<"\n">>
Marker == <<character>>

RECURSIVE Flatten(_)
Flatten(ss) == IF ss = <<>> THEN <<>> ELSE Head(ss) \o Flatten(Tail(ss))

\* the buffers made of at most n of the given lines
BuffersOf(lines, n) == {Flatten(s) : s \in UNION {[1..k -> lines] : k \in 0..n}}

\* the memory of a buffer that is followed by tail
Mem(b, tail) == b \o tail

\* the cells behind a NUL-terminated buffer
TailNul == <<NUL, NUL>>

L_text    == <<"x">> \o NL
L_ifA     == Marker \o Str_if \o SP \o NameA \o NL
L_else    == Marker \o Str_else \o NL
L_endif   == Marker \o Str_endif \o NL
L_defineA == Marker \o Str_define \o SP \o NameA \o NL
L_undefA  == Marker \o Str_undef \o SP \o NameA \o NL

Lines == {L_text, L_ifA, L_endif, L_defineA, L_undefA}

Buffers == BuffersOf(Lines, MaxLines)

-----------------------------------------------------------------------------
(* Specifications *)

\* the state after construction
Init ==
    /\ buffer = <<>>
    /\ orig = <<>>
    /\ m_p = NULLP
    /\ m_pEnd = NULLP
    /\ m_line = 0
    /\ m_column = 0
    /\ m_defines = <<>>
    /\ m_stack = <<>>
    /\ m_includeCallback = FALSE
    /\ m_commandCallback = FALSE
    /\ errs = {}
    /\ cbLog = <<>>
    /\ fault = "none"
    /\ ncalls = 0

\* one instance used for several passes over well-formed and unbalanced buffers
Next ==
    \/ AddDefine(NameA)
    \/ RemoveDefine(NameA)
    \/ \E b \in Buffers : Process(Mem(b, TailNul))
    \/ ScanChar
    \/ Directive
    \/ Return

Spec == Init /\ [][Next]_vars

-----------------------------------------------------------------------------
(* Balanced, well-formed conditional chains *)

L_textHash  == <<"x", character>> \o NL
L_elifB     == Marker \o Str_elif \o SP \o NameB \o NL
L_elifEmpty == Marker \o Str_elif \o SP \o NL

NestKinds == {"text", "if", "elif", "elifEmpty", "else", "endif"}

NestLine(kind) ==
    CASE kind = "text" -> L_textHash
      [] kind = "if" -> L_ifA
      [] kind = "elif" -> L_elifB
      [] kind = "elifEmpty" -> L_elifEmpty
      [] kind = "else" -> L_else
      [] kind = "endif" -> L_endif

\* kinds is balanced from index i on, open being the open chains, innermost
\* last: TRUE for a chain that has had its else
RECURSIVE Balanced(_, _, _)
Balanced(kinds, i, open) ==
    IF i > Len(kinds) THEN open = <<>>
    ELSE LET k == kinds[i]
             n == Len(open)
         IN  CASE k = "text" -> Balanced(kinds, i + 1, open)
               [] k = "if" -> Balanced(kinds, i + 1, Append(open, FALSE))
               [] k \in {"elif", "elifEmpty"} ->
                    n > 0 /\ ~open[n] /\ Balanced(kinds, i + 1, open)
               [] k = "else" ->
                    n > 0 /\ ~open[n] /\ Balanced(kinds, i + 1, [open EXCEPT ![n] = TRUE])
               [] k = "endif" ->
                    n > 0 /\ Balanced(kinds, i + 1, SubSeq(open, 1, n - 1))

NestPrograms ==
    {s \in UNION {[1..k -> NestKinds] : k \in 1..MaxNest} : Balanced(s, 1, <<>>)}

NestBuffers == {Flatten([i \in 1..Len(s) |-> NestLine(s[i])]) : s \in NestPrograms}

\* any of the two names is defined, then one pass over a balanced buffer
NextNest ==
    \/ ncalls = 0 /\ \E name \in Names : AddDefine(name)
    \/ ncalls = 0 /\ \E b \in NestBuffers : Process(Mem(b, TailNul))
    \/ ScanChar
    \/ Directive
    \/ Return

SpecNest == Init /\ [][NextNest]_vars

-----------------------------------------------------------------------------
(* Conditions of [!]NAME terms joined by && and || *)

CondTerms == {NameA, <<"!">> \o NameA, NameB, <<"!">> \o NameB}
CondOps == {<<"&", "&">>, <<"|", "|">>}

\* the texts of the conditions of exactly n terms
RECURSIVE CondTexts(_)
CondTexts(n) ==
    IF n = 1 THEN CondTerms
    ELSE {c \o SP \o op \o SP \o t : c \in CondTexts(n - 1), op \in CondOps, t \in CondTerms}

CondBuffers ==
    {Marker \o Str_if \o SP \o c \o NL \o L_text : c \in UNION {CondTexts(n) : n \in 1..MaxTerms}}

\* any of the two names is defined, then one pass over "#if <condition>" and a line of text
NextCond ==
    \/ ncalls = 0 /\ \E name \in Names : AddDefine(name)
    \/ ncalls = 0 /\ \E b \in CondBuffers : Process(Mem(b, TailNul))
    \/ ScanChar
    \/ Directive
    \/ Return

SpecCond == Init /\ [][NextCond]_vars

-----------------------------------------------------------------------------
(* Well-formed and malformed lines, with and without callbacks *)

QUOTE == <<"\"">>

L_textCR      == <<"x", "\r">> \o NL
L_defineBare  == Marker \o Str_define \o NL
L_elseJunk    == Marker \o Str_else \o SP \o <<"x">> \o NL
L_include     == Marker \o Str_include \o SP \o QUOTE \o <<"f">> \o QUOTE \o NL
L_includeOpen == Marker \o Str_include \o SP \o QUOTE
L_cmd         == Marker \o <<"c", "m", "d">> \o SP \o <<"v">> \o SP \o <<"w">> \o NL
L_endifEOF    == Marker \o Str_endif
L_ifNot       == Marker \o Str_if \o SP \o <<"!">> \o NL

RawLines == {L_text, L_textCR, L_ifA, L_else, L_endif, L_defineA, L_undefA, L_defineBare,
             L_elseJunk, L_include, L_includeOpen, L_cmd, L_endifEOF, L_ifNot}

RawBuffers == BuffersOf(RawLines, MaxRaw)

\* the cells behind a buffer that is the front part of a longer text
TailQuote == QUOTE \o <<NUL>>

Tails == {TailNul, TailQuote}

\* the instance is configured, then one pass over any lines
NextRaw ==
    \/ ncalls = 0 /\ AddDefine(NameA)
    \/ ncalls = 0 /\ SetIncludeCallback
    \/ ncalls = 0 /\ SetCommandCallback
    \/ ncalls = 0 /\ \E b \in RawBuffers, tail \in Tails : Process(Mem(b, tail))
    \/ ScanChar
    \/ Directive
    \/ Return

SpecRaw == Init /\ [][NextRaw]_vars

-----------------------------------------------------------------------------
(* The define set under add_define, remove_define, #define and #undef *)

L_defineB == Marker \o Str_define \o SP \o NameB \o NL
L_undefB  == Marker \o Str_undef \o SP \o NameB \o NL

DefLines == {L_text, L_defineA, L_undefA, L_defineB, L_undefB}

DefBuffers == BuffersOf(DefLines, MaxDefLines)

\* the host adds and removes names between passes over text, define and undef lines
NextDefines ==
    \/ \E name \in Names : AddDefine(name)
    \/ \E name \in Names : RemoveDefine(name)
    \/ \E b \in DefBuffers : Process(Mem(b, TailNul))
    \/ ScanChar
    \/ Directive
    \/ Return

SpecDefines == Init /\ [][NextDefines]_vars

-----------------------------------------------------------------------------
(* The reference reading of a buffer, line by line, independent of process() *)

\* s split at the elements equal to x
RECURSIVE Split(_, _)
Split(s, x) ==
    IF s = <<>> THEN << <<>> >>
    ELSE LET r == Split(Tail(s), x)
         IN  IF Head(s) = x THEN << <<>> >> \o r
             ELSE << <<Head(s)>> \o Head(r) >> \o Tail(r)

NonEmpty(t) == t # <<>>

\* the value of the text of a condition: an OR of ANDs of [!]NAME terms,
\* NAME being true iff it is in the set defined
RefTerm(t, defined) == IF Head(t) = "!" THEN Tail(t) \notin defined ELSE t \in defined

RefEval(text, defined) ==
    LET tokens == SelectSeq(Split(text, " "), NonEmpty)
        groups == Split(tokens, <<"|", "|">>)
    IN  \E g \in 1..Len(groups) :
            LET terms == SelectSeq(groups[g], LAMBDA t : t # <<"&", "&">>)
            IN  \A k \in 1..Len(terms) : RefTerm(terms[k], defined)

\* the index of the '\n' that ends the line starting at index i of mem
LineEnd(mem, i) == CHOOSE e \in i..Len(mem) : mem[e] = "\n" /\ \A j \in i..(e - 1) : mem[j] # "\n"

IsDirectiveLine(line) == Head(line) = character

\* the command word of a directive line and the text after it
RefWordEnd(line) == CHOOSE k \in 2..Len(line) :
                        line[k] \in {" ", "\n"} /\ \A j \in 2..(k - 1) : line[j] \notin {" ", "\n"}
RefWord(line) == SubSeq(line, 2, RefWordEnd(line) - 1)
RefRest(line) == SubSeq(line, RefWordEnd(line) + 1, Len(line) - 1)

Blank(line) == [i \in 1..Len(line) |-> IF line[i] = "\n" THEN "\n" ELSE " "]

\* The chains open at a line, innermost last: taken, a branch of the chain has
\* been selected; active, the current branch is the selected one.
RefAfter(line, chains, defined) ==
    LET n == Len(chains)
        w == RefWord(line)
        v == RefEval(RefRest(line), defined)
    IN  IF w = Str_if THEN Append(chains, [taken |-> v, active |-> v])
        ELSE IF w = Str_elif
        THEN [chains EXCEPT ![n] = IF @.taken THEN [taken |-> TRUE, active |-> FALSE]
                                               ELSE [taken |-> v, active |-> v]]
        ELSE IF w = Str_else
        THEN [chains EXCEPT ![n] = [taken |-> TRUE, active |-> ~@.taken]]
        ELSE IF w = Str_endif THEN SubSeq(chains, 1, n - 1)
        ELSE chains

\* what a buffer of '\n'-terminated lines becomes from index i on
RECURSIVE Expected(_, _, _, _)
Expected(buf, i, chains, defined) ==
    IF i > Len(buf) THEN <<>>
    ELSE LET e == LineEnd(buf, i)
             line == SubSeq(buf, i, e)
         IN  IF IsDirectiveLine(line)
             THEN Blank(line) \o Expected(buf, e + 1, RefAfter(line, chains, defined), defined)
             ELSE (IF \A k \in 1..Len(chains) : chains[k].active THEN line ELSE Blank(line))
                  \o Expected(buf, e + 1, chains, defined)

\* the buffer as passed to the last process() call, and as it is now
OrigBuffer == SubSeq(orig, 1, Len(orig) - Pad)
CurBuffer == SubSeq(buffer, 1, Len(buffer) - Pad)

Returned == m_p = NULLP /\ ncalls > 0

\* a subsequence of lines occurs in s
Occurs(sub, s) == \E i \in 0..(Len(s) - Len(sub)) : SubSeq(s, i + 1, i + Len(sub)) = sub

-----------------------------------------------------------------------------
(* Claims *)

\* C1: from an empty scope stack, a buffer of '\n'-terminated lines with
\* balanced, well-formed if / elif / else / endif directives comes out with
\* every directive line blanked (newline kept), every other line unchanged
\* where all enclosing chains have their selected branch active, and blanked
\* (newline kept) elsewhere.
C1_Nesting ==
    /\ fault = "none"
    /\ (Returned /\ ~Occurs(L_elifEmpty, OrigBuffer))
          => CurBuffer = Expected(OrigBuffer, 1, <<>>, Range(m_defines))

\* a pass kept the text of the if branch and blanked the text of the else branch
C1_Witness ==
    /\ Returned
    /\ OrigBuffer = L_ifA \o L_textHash \o L_else \o L_textHash \o L_endif
    /\ CurBuffer = Blank(L_ifA) \o L_textHash \o Blank(L_else) \o Blank(L_textHash) \o Blank(L_endif)

\* the main loop is at a line that starts with the marker and the command word
AtCommand(word) ==
    /\ Running
    /\ m_p < m_pEnd
    /\ m_column = 0
    /\ m_p + Len(word) + 1 < Len(buffer)
    /\ Chars(buffer, m_p, Len(word) + 1) = Marker \o word
    /\ ~isAlphaNum(At(buffer, m_p + Len(word) + 1))

\* The branches that kept a text line, from index i of the buffer on: pairs of
\* the index where a chain opens and the number of the branch within it.
\* chains are the pairs of the open chains.
RECURSIVE KeptBranches(_, _, _, _)
KeptBranches(buf, out, i, chains) ==
    IF i > Len(buf) THEN {}
    ELSE LET e == LineEnd(buf, i)
             line == SubSeq(buf, i, e)
             n == Len(chains)
         IN  IF ~IsDirectiveLine(line)
             THEN (IF SubSeq(out, i, e) # Blank(line) THEN Range(chains) ELSE {})
                  \cup KeptBranches(buf, out, e + 1, chains)
             ELSE IF RefWord(line) = Str_if
             THEN KeptBranches(buf, out, e + 1, Append(chains, <<i, 1>>))
             ELSE IF RefWord(line) \in {Str_elif, Str_else}
             THEN KeptBranches(buf, out, e + 1, [chains EXCEPT ![n] = <<@[1], @[2] + 1>>])
             ELSE KeptBranches(buf, out, e + 1, SubSeq(chains, 1, n - 1))

\* C2: an #elif met while its chain is Passing turns the frame Erasing and
\* Deep without evaluating its condition (no error is reported, whatever the
\* condition is); an #else met while Passing turns it Erasing; a frame that is
\* Erasing and Deep, or Erasing after its else, stays as it is until it is
\* popped; and in the output at most one branch of a chain has kept text.
C2_ShortCircuit ==
    /\ [][
          /\ (AtCommand(Str_elif) /\ Len(m_stack) > 0 /\ Scope_Passing \in Top)
                => (/\ m_stack' = [m_stack EXCEPT ![Len(m_stack)] =
                                      {Scope_Erasing, Scope_ElseIf, Scope_Deep}]
                    /\ errs' = errs)
          /\ (AtCommand(Str_else) /\ Len(m_stack) > 0 /\ Scope_Passing \in Top)
                => (/\ Len(m_stack') = Len(m_stack)
                    /\ Scope_Erasing \in m_stack'[Len(m_stack)])
          /\ \A i \in 1..Len(m_stack) :
                (/\ i <= Len(m_stack')
                 /\ Scope_Erasing \in m_stack[i]
                 /\ (Scope_Deep \in m_stack[i] \/ Scope_Else \in m_stack[i]))
                => (m_stack'[i] = m_stack[i])
       ]_vars
    /\ [](Returned =>
            \A a, b \in KeptBranches(OrigBuffer, CurBuffer, 1, <<>>) :
                (a[1] = b[1]) => (a[2] = b[2]))

\* with A and B defined, the body of "#elif B" was blanked after the kept
\* body of "#if A"
C2_Witness ==
    /\ Returned
    /\ has_define(m_defines, NameA) /\ has_define(m_defines, NameB)
    /\ OrigBuffer = L_ifA \o L_textHash \o L_elifB \o L_textHash \o L_endif
    /\ CurBuffer = Blank(L_ifA) \o L_textHash \o Blank(L_elifB) \o Blank(L_textHash)
                      \o Blank(L_endif)

\* the first line of the buffer passed to process()
FirstLine == SubSeq(OrigBuffer, 1, LineEnd(OrigBuffer, 1))

\* C3: once the "#if <condition>" line of [!]NAME terms joined by && and ||
\* has been processed, the frame pushed is Passing iff the condition, read
\* with && binding tighter than ||, is true of the define set; the two folding
\* passes left exactly one entry (no assertion failure) and no syntax error
\* was reported.
C3_Condition ==
    (ncalls = 1 /\ m_p # 0)
       => /\ fault = "none"
          /\ m_stack = << IF RefEval(RefRest(FirstLine), Range(m_defines))
                          THEN {Scope_Passing} ELSE {Scope_Erasing} >>
          /\ Err("Assertion") \notin errs
          /\ Err("ConditionSyntax") \notin errs

\* with only A defined, "A || B && !A" was found true
C3_Witness ==
    /\ Returned
    /\ m_defines = <<NameA>>
    /\ RefRest(FirstLine) = <<"A", " ", "|", "|", " ", "B", " ", "&", "&", " ", "!", "A">>
    /\ m_stack = <<{Scope_Passing}>>

\* the length of the buffer passed to the current / last process() call
OrigLen == Len(orig) - Pad

\* C4: process(buffer, len) leaves the memory as long as it was, every cell
\* of [0, len) holding its input character or a space and every cell behind
\* the buffer holding what it held.
C4_InPlace ==
    /\ Len(buffer) = Len(orig)
    /\ \A i \in 1..Len(orig) :
          IF i <= OrigLen THEN buffer[i] \in {orig[i], " "} ELSE buffer[i] = orig[i]

\* C5: every cell of the buffer that held '\n' or '\r' when process() was
\* called still holds it.
C5_Terminators ==
    \A i \in 1..OrigLen : orig[i] \in {"\n", "\r"} => buffer[i] = orig[i]

\* the index of the last character of the line that starts at index i: its
\* '\n', or the end of the buffer
LineLast(buf, i) ==
    IF \E e \in i..Len(buf) : buf[e] = "\n" THEN LineEnd(buf, i) ELSE Len(buf)

\* the indices at which the lines of the buffer start
LineStarts(buf) == {i \in 1..Len(buf) : i = 1 \/ buf[i - 1] = "\n"}

\* C7: after process(), no line of the input that starts with the marker and
\* a command word holds anything but spaces and its terminator.
C7_DirectiveBlanked ==
    Returned =>
       \A i \in LineStarts(OrigBuffer) :
          (/\ OrigBuffer[i] = character
           /\ i < OrigLen
           /\ isAlphaNum(OrigBuffer[i + 1]))
          => \A j \in i..LineLast(OrigBuffer, i) : CurBuffer[j] \in {" ", "\n", "\r"}

\* C8: no process() call enters a loop that it can never leave: every call
\* keeps the means to reach the end of its buffer and return.
C8_Termination == fault # "hang"

\* C6: whatever calls came before, a buffer without the marker character is
\* never changed by process().
C6_Identity ==
    (ncalls > 0 /\ \A i \in 1..OrigLen : orig[i] # character) => buffer = orig

\* C9: every process() call starts from an empty scope stack, and the stack
\* is empty whenever no call is in progress.
C9_StackLocal ==
    /\ m_p = NULLP => m_stack = <<>>
    /\ (m_p = 0 /\ m_line = 1 /\ m_column = 0) => m_stack = <<>>

\* the main loop stands at the start of the given line
AtLine(line) ==
    /\ Running
    /\ m_column = 0
    /\ m_p + Len(line) <= m_pEnd
    /\ Chars(buffer, m_p, Len(line)) = line

\* the innermost open scope erases
InErasedScope == m_stack # <<>> /\ Scope_Erasing \in Top

\* C10: entering and leaving process() keep the define set; inside a pass only
\* a non-erased define / undef line changes it, "#define A" leaving A defined
\* and "#undef A" leaving it undefined; and a non-erased "#if A" of any pass
\* passes iff A is in the define set as the earlier calls left it.
C10_DefinesPersist ==
    [][
        /\ (m_p = NULLP /\ m_p' # NULLP) => (m_defines' = m_defines)
        /\ (m_p # NULLP /\ m_p' = NULLP) => (m_defines' = m_defines)
        /\ (Running /\ ~(AtCommand(Str_define) \/ AtCommand(Str_undef)))
              => (m_defines' = m_defines)
        /\ (Running /\ InErasedScope) => (m_defines' = m_defines)
        /\ (AtLine(L_defineA) /\ ~InErasedScope)
              => (Range(m_defines') = Range(m_defines) \cup {NameA})
        /\ (AtLine(L_undefA) /\ ~InErasedScope)
              => (Range(m_defines') = Range(m_defines) \ {NameA})
        /\ (AtLine(L_ifA) /\ ~InErasedScope)
              => (/\ m_defines' = m_defines
                  /\ m_stack' = Append(m_stack, IF has_define(m_defines, NameA)
                                                 THEN {Scope_Passing}
                                                 ELSE {Scope_Erasing}))
    ]_vars

\* the second pass has just tested "#if A" as true on the define set that the
\* calls before it left
C10_Witness ==
    /\ ncalls = 2
    /\ OrigLen >= Len(L_ifA)
    /\ SubSeq(orig, 1, Len(L_ifA)) = L_ifA
    /\ m_p = Len(L_ifA)
    /\ m_stack = <<{Scope_Passing}>>
    /\ has_define(m_defines, NameA)

\* what the iteration at m_p can leave when its callback does not call process()
PlainOutcomes == {Dispatch(ub, [ret |-> ret, re |-> FALSE]) : ub \in BOOLEAN, ret \in BOOLEAN}

\* the last entry of the history of calls is a process() call
Reentered(log) == log # <<>> /\ log[Len(log)].callback = "process"

\* C11: an iteration whose callback calls process() on the instance leaves
\* what the same iteration leaves when the callback does not (buffer, cursor,
\* line, column, scope stack, define set, the callback's own invocation),
\* plus the report of the inner call, whose buffer is as it was handed in.
C11_Reentrancy ==
    [][
        (Running /\ Len(cbLog') > Len(cbLog) /\ Reentered(cbLog'))
        => (/\ Err("Reentrancy") \in errs'
            /\ cbLog'[Len(cbLog')].value = InnerMem
            /\ \E r \in PlainOutcomes :
                  /\ buffer' = IF r.ow THEN overwrite(buffer, m_p, r.p - m_p) ELSE buffer
                  /\ m_p' = r.p
                  /\ m_line' = r.line
                  /\ m_column' = r.col
                  /\ m_defines' = r.defs
                  /\ m_stack' = r.stack
                  /\ fault' = r.fault
                  /\ errs' = r.errs \cup {Err("Reentrancy")}
                  /\ SubSeq(cbLog', 1, Len(cbLog') - 1) = r.log)
    ]_vars

\* the include callback of a directive on the second line has called process()
\* and the pass has gone on to the end of the buffer
C11_Witness ==
    /\ Running
    /\ m_p = m_pEnd
    /\ m_line = 3
    /\ Reentered(cbLog)
    /\ cbLog[Len(cbLog) - 1].callback = "include"
    /\ Err("Reentrancy") \in errs

\* C12: an "#endif" line met on an empty scope stack is reported as
\* unbalanced, leaves the stack empty and the define set as it was, and moves
\* the cursor to the start of the next line (behind the line's '\n', or to the
\* end of the buffer), the pass staying able to go on.
C12_UnbalancedEndif ==
    [][
        (AtCommand(Str_endif) /\ m_stack = <<>>)
        => (/\ Err("UnbalancedEndif") \in errs'
            /\ m_stack' = <<>>
            /\ m_defines' = m_defines
            /\ m_p' = LineLast(CurBuffer, m_p + 1)
            /\ fault' = "none")
    ]_vars

\* the number of scopes a buffer of '\n'-terminated lines leaves open from
\* index i on, d being open there: "#if" opens one, "#endif" closes one if any
RECURSIVE RefDepth(_, _, _)
RefDepth(buf, i, d) ==
    IF i > Len(buf) THEN d
    ELSE LET e == LineEnd(buf, i)
             line == SubSeq(buf, i, e)
         IN  RefDepth(buf, e + 1,
                      IF ~IsDirectiveLine(line) THEN d
                      ELSE IF RefWord(line) = Str_if THEN d + 1
                      ELSE IF RefWord(line) = Str_endif /\ d > 0 THEN d - 1
                      ELSE d)

UnclosedReports(es) == {e \in es : e[1] = "UnclosedScope"}

\* C13: when process() returns from a buffer that opened k scopes more than
\* it closed, it has reported the unclosed scopes with depth k if k > 0, has
\* reported none if k = 0, and has left the buffer as the pass blanked it.
C13_UnclosedDepth ==
    [][
        (Running /\ m_p' = NULLP)
        => (/\ buffer' = buffer
            /\ UnclosedReports(errs') =
                  IF RefDepth(OrigBuffer, 1, 0) > 0
                  THEN {<<"UnclosedScope", RefDepth(OrigBuffer, 1, 0)>>}
                  ELSE {})
    ]_vars

Str_cmd == <<"c", "m", "d">>

\* C14: in an erased scope, a define, undef, include or custom-command line
\* leaves the define set, the scope stack, the history of callback
\* invocations and the errors reported as they were; the only cells changed
\* are those from the marker to the new cursor, blanked.
C14_ErasedNoEffect ==
    [][
        (/\ InErasedScope
         /\ \/ AtCommand(Str_define)
            \/ AtCommand(Str_undef)
            \/ AtCommand(Str_include)
            \/ AtCommand(Str_cmd))
        => (/\ m_defines' = m_defines
            /\ m_stack' = m_stack
            /\ cbLog' = cbLog
            /\ errs' = errs
            /\ fault' = "none" => buffer' = overwrite(buffer, m_p, m_p' - m_p))
    ]_vars

\* with a command callback set and A undefined, the pass over "#if A" and a
\* custom-command line has reached the end without a call or a report
C14_Witness ==
    /\ Running
    /\ m_commandCallback
    /\ OrigBuffer = L_ifA \o L_cmd
    /\ CurBuffer = Blank(L_ifA) \o Blank(L_cmd)
    /\ m_p = m_pEnd
    /\ m_stack = <<{Scope_Erasing}>>
    /\ cbLog = <<>>
    /\ errs = {}

\* the line of the buffer that starts at the cursor
LineAtCursor == SubSeq(CurBuffer, m_p + 1, LineEnd(CurBuffer, m_p + 1))

\* the callback invocations a step has added to the history, inner process()
\* calls left out
NewCalls(log, log2) ==
    SelectSeq(SubSeq(log2, Len(log) + 1, Len(log2)), LAMBDA e : e.callback # "process")

\* C15: a non-erased custom-command line, with a command callback set, makes
\* exactly one callback invocation, with the command word and with the whole
\* text between the whitespace behind the word and the end of the line as the
\* value (no value when that text is empty).
C15_CommandValue ==
    [][
        (AtCommand(Str_cmd) /\ ~InErasedScope /\ m_commandCallback)
        => (NewCalls(cbLog, cbLog') =
               << [callback |-> "command", command |-> Str_cmd,
                   hasValue |-> RefRest(LineAtCursor) # <<>>,
                   value |-> RefRest(LineAtCursor)] >>)
    ]_vars

\* C16: at every define set the instance can hold and for every name S,
\* add_define(S) leaves S defined and remove_define(S) after it leaves S
\* undefined, both leaving every other name defined or not as it was.
C16_RoundTrip ==
    \A S \in Names :
        /\ has_define(add_define(m_defines, S).defs, S)
        /\ ~has_define(remove_define(add_define(m_defines, S).defs, S).defs, S)
        /\ \A T \in Names \ {S} :
              /\ has_define(add_define(m_defines, S).defs, T) = has_define(m_defines, T)
              /\ has_define(remove_define(add_define(m_defines, S).defs, S).defs, T)
                    = has_define(m_defines, T)

\* with A and B defined in this order, a pass over "#undef A" and "#define A"
\* has returned without an error: A has been removed and added again, B is
\* still defined
C16_Witness ==
    /\ Returned
    /\ OrigBuffer = L_undefA \o L_defineA
    /\ m_defines = <<NameB, NameA>>
    /\ errs = {}

\* C17: the define set never holds a name twice; add_define of a name it
\* holds reports the duplicate and leaves it as it is, remove_define of a name
\* it does not hold reports the unknown name and leaves it as it is.
C17_Guards ==
    /\ \A i, j \in 1..Len(m_defines) : m_defines[i] = m_defines[j] => i = j
    /\ \A S \in Names :
          /\ has_define(m_defines, S)
                => add_define(m_defines, S) =
                      [defs |-> m_defines, errs |-> {Err("DuplicateDefine")}]
          /\ ~has_define(m_defines, S)
                => remove_define(m_defines, S) =
                      [defs |-> m_defines, errs |-> {Err("UnknownDefine")}]

\* a pass over "#define A" and "#undef B" on a set that holds A and not B has
\* returned: both lines have been reported and the set is as it was
C17_Witness ==
    /\ Returned
    /\ OrigBuffer = L_defineA \o L_undefB
    /\ m_defines = <<NameA>>
    /\ errs = {Err("DuplicateDefine"), Err("UnknownDefine")}

\* C18: a non-erased "#if <tokens>" line whose condition is evaluated moves
\* the cursor to the start of the next line (behind the first '\n' after the
\* directive) and leaves every cell from there on as it was.
C18_ConditionLine ==
    [][
        (/\ AtCommand(Str_if)
         /\ ~InErasedScope
         /\ At(buffer, m_p + 3) = " "
         /\ fault' = "none")
        => (/\ m_p' = LineLast(CurBuffer, m_p + 1)
            /\ \A i \in (LineLast(CurBuffer, m_p + 1) + 1)..Len(buffer) : buffer'[i] = buffer[i])
    ]_vars

\* a character of none of the classes of the lexer
NoClass(c) ==
    ~(isWhitespace(c) \/ isNewline(c) \/ isAlphaNum(c) \/ isOperator(c) \/ c = "\"")

\* C19: at every position of the buffer of a pass that holds a character of
\* no class, lex() returns a token of type None and of length 1.
C19_RejectToken ==
    Running =>
        \A p \in 0..(m_pEnd - 1) :
            NoClass(At(buffer, p)) => lex(buffer, p, m_pEnd) = [len |-> 1, type |-> "None"]

\* the characters of buf from index i up to the next '"', or up to the end of
\* buf when there is none
RECURSIVE RefPath(_, _)
RefPath(buf, i) ==
    IF i > Len(buf) \/ buf[i] = "\"" THEN <<>>
    ELSE <<buf[i]>> \o RefPath(buf, i + 1)

\* C20: a non-erased '#include "...' line, with an include callback set,
\* makes one callback invocation with the characters between the opening
\* quote and the closing quote (or the end of the buffer); the pass stays
\* able to go on and the cursor stays within the buffer.
C20_IncludePath ==
    [][
        (/\ AtCommand(Str_include)
         /\ ~InErasedScope
         /\ m_includeCallback
         /\ At(buffer, m_p + 8) = " "
         /\ At(buffer, m_p + 9) = "\"")
        => (/\ fault' = "none"
            /\ m_p' <= m_pEnd
            /\ NewCalls(cbLog, cbLog') =
                  << [callback |-> "include", command |-> <<>>, hasValue |-> TRUE,
                      value |-> RefPath(CurBuffer, m_p + 11)] >>)
    ]_vars

\* a frame has exactly one of Passing / Erasing, and Deep only with Erasing
FrameShape(f) ==
    /\ (Scope_Passing \in f) # (Scope_Erasing \in f)
    /\ Scope_Deep \in f => Scope_Erasing \in f

\* C21: in every state each frame of the scope stack has exactly one of
\* Passing / Erasing, and Deep only with Erasing; every frame above an
\* Erasing frame is Erasing and Deep; so the top frame is Passing iff all
\* frames are.
C21_StackShape ==
    /\ \A i \in 1..Len(m_stack) : FrameShape(m_stack[i])
    /\ \A i, j \in 1..Len(m_stack) :
          (i < j /\ Scope_Erasing \in m_stack[i])
             => {Scope_Erasing, Scope_Deep} \subseteq m_stack[j]
    /\ m_stack # <<>>
          => (Scope_Passing \in Top <=> \A i \in 1..Len(m_stack) : Scope_Passing \in m_stack[i])

\* with A undefined, the pass has gone over "#if A", "#if A" and "#else": the
\* inner frame, pushed in erased text, is still Erasing and Deep behind its #else
C21_Witness ==
    /\ Running
    /\ OrigLen >= 2 * Len(L_ifA) + Len(L_else)
    /\ SubSeq(orig, 1, 2 * Len(L_ifA) + Len(L_else)) = L_ifA \o L_ifA \o L_else
    /\ m_p = 2 * Len(L_ifA) + Len(L_else)
    /\ m_stack = <<{Scope_Erasing}, {Scope_Erasing, Scope_Deep}>>

====
